---- MODULE Spec2Model ----
(***************************************************************************)
(* Work-time analysis: process_work_chunks (session segmentation),         *)
(* the minimum-hours filter of main(), generate_summary, and the day/week  *)
(* pivots of export_excel / create_excel_download / the Streamlit main().  *)
(*                                                                         *)
(* Time is in whole seconds since 2024-01-01 00:00:00 (a Monday), the      *)
(* resolution of the '%Y-%m-%d %H:%M:%S' log format.  A duration or a gap  *)
(* is kept as its number of seconds: 'Duration (hours)' is that / 3600,    *)
(* 'Gap to Next' is that / 60.  An hour figure is therefore an exact       *)
(* rational n/3600 held as n; one hundredth of an hour is 36.              *)
(***************************************************************************)
EXTENDS Integers, Sequences, FiniteSets, TLC

\* ---------------------------------------------------------------- bounds

MaxEvents == 3          \* rows of an unordered log table (Spec)
MaxReportEvents == 4    \* rows of a log table of the report runs (SpecReport)

\* ------------------------------------------------------ program constants

SecondsPerMinute == 60
SecondsPerHour == 3600
SecondsPerDay == 86400
DaysPerWeek == 7
HundredthHour == SecondsPerHour \div 100     \* 0.01 h, the unit of round(2)

\* ------------------------------------------------------------ input sets

NaN == "NaN"                       \* a missing User cell (read_csv's NaN)
UserOrder == <<"", "a", "b">>      \* the User strings, in string order
Users == {UserOrder[i] : i \in 1..Len(UserOrder)} \cup {NaN}
\* A 'Date/Time (UTC)' cell: day number since 2024-01-01 and second of the day.
Stamp(d, s) == [date |-> d, time |-> s]
Times == {Stamp(0, 0), Stamp(0, 60), Stamp(0, 132)}
\* Monday 00:00:00 and 00:00:24, Saturday 23:59:48, Sunday 00:00:12 and
\* 00:00:36, and the next Monday 00:00:00.
ReportTimes ==
    {Stamp(0, 0), Stamp(0, 24), Stamp(5, SecondsPerDay - 12), Stamp(6, 12),
     Stamp(6, 36), Stamp(7, 0)}
InactivityChoices == {1, 2}        \* --inactivity, minutes
DefaultMinHours == 0               \* --min-hours' default
MinHoursChoices == {DefaultMinHours, 24}   \* --min-hours, as hours * 3600
\* What argparse's type=int and type=float also accept: a threshold that is
\* not positive, a negative minimum.
AnyInactivityChoices == InactivityChoices \cup {0}
AnyMinHoursChoices == MinHoursChoices \cup {-24}

\* An optional value: None, or Some(x).
None == <<>>
Some(x) == <<x>>
Val(o) == o[1]

\* ------------------------------------------------------------- helpers

RECURSIVE SumSeq(_)
SumSeq(s) == IF s = <<>> THEN 0 ELSE Head(s) + SumSeq(Tail(s))

RECURSIVE SelectSeqBy(_, _)
\* rows of s whose User is u, in order (df[df['User'] == u])
SelectSeqBy(s, u) ==
    IF s = <<>> THEN <<>>
    ELSE IF Head(s).User = u THEN <<Head(s)>> \o SelectSeqBy(Tail(s), u)
         ELSE SelectSeqBy(Tail(s), u)

\* Position of a User cell in sort order: strings in string order
\* ("" < "a" < "b"), NaN last (na_position='last').
UserRank(u) ==
    IF u = NaN THEN Len(UserOrder) + 1
    ELSE CHOOSE i \in 1..Len(UserOrder) : UserOrder[i] = u

\* Every ordering of the rows of s.
Orderings(s) ==
    {[i \in 1..Len(s) |-> s[p[i]]] : p \in Permutations(1..Len(s))}

\* ------------------------------------------------------------- state

VARIABLES
    pc,                 \* position in main()
    df,                 \* the caller's log table (rows)
    df_columns,         \* the caller's log table (column names)
    inactivity_minutes, \* args.inactivity
    min_hours,          \* args.min_hours, as hours * 3600
    sorted_df,          \* process_work_chunks' local df after filter and sort
    groups,             \* users still to be visited by the groupby loop
    user,               \* the user of the current group
    user_logs,          \* the rows of the current group
    row,                \* index of the next row of user_logs
    chunk_start, chunk_end, chunk_logs_count,   \* the open chunk
    chunks,             \* the chunk list; process_work_chunks' result
    chunks_df,          \* main()'s chunks_df, after the minimum-hours filter
    filtered_count,     \* developers removed by the filter
    summary,            \* generate_summary's rows
    pivot_table, pivot_table_week,         \* export_excel's pivots
    st_pivot_table, st_pivot_table_week    \* the Streamlit page's pivots

segVars == <<sorted_df, groups, user, user_logs, row,
             chunk_start, chunk_end, chunk_logs_count, chunks>>
outVars == <<chunks_df, filtered_count, summary, pivot_table, pivot_table_week,
             st_pivot_table, st_pivot_table_week>>
vars == <<pc, df, df_columns, inactivity_minutes, min_hours, segVars, outVars>>

\* ------------------------------------------------- process_work_chunks

\* pd.to_datetime(..., format='%Y-%m-%d %H:%M:%S')
to_datetime(stamp) == stamp.date * SecondsPerDay + stamp.time

\* df['DateTime'] = pd.to_datetime(df['Date/Time (UTC)'], ...)
WithDateTime(rows) ==
    [i \in 1..Len(rows) |->
        [idx |-> rows[i].idx, User |-> rows[i].User,
         DateTime |-> to_datetime(rows[i].DateTimeUTC)]]

\* Variant: the empty-string test is forgotten.
ValidUser_NotNaOnly(u) == u # NaN

\* df['User'].notna() & (df['User'] != '')
ValidUser(u) == u # NaN /\ u # ""

RECURSIVE FilterValid(_)
FilterValid(rows) ==
    IF rows = <<>> THEN <<>>
    ELSE IF ValidUser(Head(rows).User)
         THEN <<Head(rows)>> \o FilterValid(Tail(rows))
         ELSE FilterValid(Tail(rows))

\* Variant: sort_values(['User']) only.
RowLE_UserOnly(r1, r2) == UserRank(r1.User) <= UserRank(r2.User)

\* The order of sort_values(['User', 'DateTime']).
RowLE(r1, r2) ==
    \/ UserRank(r1.User) < UserRank(r2.User)
    \/ r1.User = r2.User /\ r1.DateTime <= r2.DateTime

IsSorted(rows) == \A i \in 1..(Len(rows) - 1) : RowLE(rows[i], rows[i + 1])

\* Variant: the table is scanned in file order, unsorted.
SortValues_Unsorted(rows) == {rows}

\* What sort_values may return: the default kind is quicksort, which is not
\* stable, so rows with equal keys come out in any order.
SortValues(rows) == {o \in Orderings(rows) : IsSorted(o)}

\* The keys df.groupby('User') iterates over: the distinct users, sorted
\* (a NaN key is dropped).
GroupKeys(rows) ==
    LET present == {i \in 1..Len(UserOrder) :
                      \E k \in 1..Len(rows) : rows[k].User = UserOrder[i]}
        RECURSIVE Asc(_)
        Asc(S) == IF S = {} THEN <<>>
                  ELSE LET m == CHOOSE x \in S : \A y \in S : x <= y
                       IN <<UserOrder[m]>> \o Asc(S \ {m})
    IN Asc(present)

\* One chunk row, as appended to the list.
Chunk(developer, start, end, count, gap) ==
    [Developer |-> developer, Start |-> start, End |-> end,
     Duration |-> end - start, LogCount |-> count, GapToNext |-> gap]

inactivity_threshold(minutes) == minutes * SecondsPerMinute

\* Variant: the inclusive comparison, time_diff >= inactivity_threshold.
StartsNewChunk_Inclusive(time_diff, minutes) ==
    time_diff >= inactivity_threshold(minutes)

\* time_diff > inactivity_threshold
StartsNewChunk(time_diff, minutes) == time_diff > inactivity_threshold(minutes)

\* Variant: the gap is measured from the open chunk's start,
\* time_diff = current_time - chunk_start.
ScanStep_FromStart(acc, developer, current_time, minutes) ==
    IF acc.chunk_start = None
    THEN [acc EXCEPT !.chunk_start = Some(current_time),
                     !.chunk_end = Some(current_time),
                     !.chunk_logs_count = 1]
    ELSE LET time_diff == current_time - Val(acc.chunk_start)
         IN IF StartsNewChunk(time_diff, minutes)
            THEN [chunk_start |-> Some(current_time),
                  chunk_end |-> Some(current_time),
                  chunk_logs_count |-> 1,
                  chunks |-> Append(acc.chunks,
                                Chunk(developer, Val(acc.chunk_start),
                                      Val(acc.chunk_end), acc.chunk_logs_count,
                                      Some(time_diff)))]
            ELSE [acc EXCEPT !.chunk_end = Some(current_time),
                             !.chunk_logs_count = acc.chunk_logs_count + 1]

\* The body of the row loop: the open chunk and the list after one row.
ScanStep(acc, developer, current_time, minutes) ==
    IF acc.chunk_start = None
    THEN [acc EXCEPT !.chunk_start = Some(current_time),
                     !.chunk_end = Some(current_time),
                     !.chunk_logs_count = 1]
    ELSE LET time_diff == current_time - Val(acc.chunk_end)
         IN IF StartsNewChunk(time_diff, minutes)
            THEN [chunk_start |-> Some(current_time),
                  chunk_end |-> Some(current_time),
                  chunk_logs_count |-> 1,
                  chunks |-> Append(acc.chunks,
                                Chunk(developer, Val(acc.chunk_start),
                                      Val(acc.chunk_end), acc.chunk_logs_count,
                                      Some(time_diff)))]
            ELSE [acc EXCEPT !.chunk_end = Some(current_time),
                             !.chunk_logs_count = acc.chunk_logs_count + 1]

\* Variant: the last chunk is saved with a gap of 0 instead of None.
SaveLast_ZeroGap(acc, developer) ==
    IF acc.chunk_start # None
    THEN Append(acc.chunks,
                Chunk(developer, Val(acc.chunk_start), Val(acc.chunk_end),
                      acc.chunk_logs_count, Some(0)))
    ELSE acc.chunks

\* Variant: the open chunk is not saved when the group ends.
SaveLast_Forgotten(acc, developer) == acc.chunks

\* "Save last chunk of user".
SaveLast(acc, developer) ==
    IF acc.chunk_start # None
    THEN Append(acc.chunks,
                Chunk(developer, Val(acc.chunk_start), Val(acc.chunk_end),
                      acc.chunk_logs_count, None))
    ELSE acc.chunks

Acc == [chunk_start |-> chunk_start, chunk_end |-> chunk_end,
        chunk_logs_count |-> chunk_logs_count, chunks |-> chunks]

\* ---- the steps of process_work_chunks

\* Lines 166-172: the DateTime column is written into the caller's table,
\* then the local df is filtered and sorted.
ConvertFilterSort ==
    /\ pc = "start"
    /\ df_columns' = df_columns \cup {"DateTime"}
    /\ \E s \in SortValues(FilterValid(WithDateTime(df))) :
          /\ sorted_df' = s
          /\ groups' = GroupKeys(s)
    /\ chunks' = <<>>
    /\ pc' = "group"
    /\ UNCHANGED <<df, inactivity_minutes, min_hours, user, user_logs, row,
                   chunk_start, chunk_end, chunk_logs_count, outVars>>

\* Variant: chunk_start, chunk_end and chunk_logs_count are initialised
\* before the loop over the groups instead of inside it.
NextUser_NoReset ==
    /\ pc = "group"
    /\ groups # <<>>
    /\ user' = Head(groups)
    /\ groups' = Tail(groups)
    /\ user_logs' = SelectSeqBy(sorted_df, Head(groups))
    /\ row' = 1
    /\ pc' = "scan"
    /\ UNCHANGED <<df, df_columns, inactivity_minutes, min_hours, sorted_df,
                   chunk_start, chunk_end, chunk_logs_count, chunks, outVars>>

\* Lines 178-183: the next group; the open chunk is reset.
NextUser ==
    /\ pc = "group"
    /\ groups # <<>>
    /\ user' = Head(groups)
    /\ groups' = Tail(groups)
    /\ user_logs' = SelectSeqBy(sorted_df, Head(groups))
    /\ row' = 1
    /\ chunk_start' = None
    /\ chunk_end' = None
    /\ chunk_logs_count' = 0
    /\ pc' = "scan"
    /\ UNCHANGED <<df, df_columns, inactivity_minutes, min_hours, sorted_df,
                   chunks, outVars>>

\* Lines 185-217: one row of the group.
ScanRow ==
    /\ pc = "scan"
    /\ row <= Len(user_logs)
    /\ LET acc == ScanStep(Acc, user, user_logs[row].DateTime, inactivity_minutes)
       IN /\ chunk_start' = acc.chunk_start
          /\ chunk_end' = acc.chunk_end
          /\ chunk_logs_count' = acc.chunk_logs_count
          /\ chunks' = acc.chunks
    /\ row' = row + 1
    /\ UNCHANGED <<pc, df, df_columns, inactivity_minutes, min_hours, sorted_df,
                   groups, user, user_logs, outVars>>

\* Lines 219-230: the group's last chunk.
SaveLastChunk ==
    /\ pc = "scan"
    /\ row > Len(user_logs)
    /\ chunks' = SaveLast(Acc, user)
    /\ pc' = "group"
    /\ UNCHANGED <<df, df_columns, inactivity_minutes, min_hours, sorted_df,
                   groups, user, user_logs, row, chunk_start, chunk_end,
                   chunk_logs_count, outVars>>

\* Lines 232-235: chunks_df = pd.DataFrame(chunks) is returned to main().
ReturnChunks ==
    /\ pc = "group"
    /\ groups = <<>>
    /\ chunks_df' = chunks
    /\ pc' = "segmented"
    /\ UNCHANGED <<df, df_columns, inactivity_minutes, min_hours, segVars,
                   filtered_count, summary, pivot_table, pivot_table_week,
                   st_pivot_table, st_pivot_table_week>>

\* process_work_chunks as a function of the table: the same steps, folded.
RECURSIVE ScanRows(_, _, _, _)
ScanRows(acc, developer, rows, minutes) ==
    IF rows = <<>> THEN acc
    ELSE ScanRows(ScanStep(acc, developer, Head(rows).DateTime, minutes),
                  developer, Tail(rows), minutes)

RECURSIVE ScanGroups(_, _, _, _)
ScanGroups(keys, rows, minutes, done) ==
    IF keys = <<>> THEN done
    ELSE LET acc0 == [chunk_start |-> None, chunk_end |-> None,
                      chunk_logs_count |-> 0, chunks |-> done]
             acc == ScanRows(acc0, Head(keys), SelectSeqBy(rows, Head(keys)),
                             minutes)
         IN ScanGroups(Tail(keys), rows, minutes, SaveLast(acc, Head(keys)))

process_work_chunks(rows, minutes) ==
    LET s == CHOOSE o \in SortValues(FilterValid(WithDateTime(rows))) : TRUE
    IN ScanGroups(GroupKeys(s), s, minutes, <<>>)

\* ------------------------------------------------------- aggregation

\* Variant: the figure is cut to 2 decimals instead of rounded.
Round2_Truncate(n) == (n \div HundredthHour) * HundredthHour

\* DataFrame.round(2) of an hour figure n/3600: the nearest hundredth, a tie
\* going to the even hundredth (numpy's rint).
Round2(n) ==
    LET q == n \div HundredthHour
        r == n % HundredthHour
    IN IF 2 * r < HundredthHour THEN q * HundredthHour
       ELSE IF 2 * r > HundredthHour THEN (q + 1) * HundredthHour
       ELSE IF q % 2 = 0 THEN q * HundredthHour
       ELSE (q + 1) * HundredthHour

\* chunks_df['Developer'].unique(), as a set
Developers(cs) == {cs[i].Developer : i \in 1..Len(cs)}

RECURSIVE ChunksOf(_, _)
\* chunks_df[chunks_df['Developer'] == d]
ChunksOf(cs, d) ==
    IF cs = <<>> THEN <<>>
    ELSE IF Head(cs).Developer = d THEN <<Head(cs)>> \o ChunksOf(Tail(cs), d)
         ELSE ChunksOf(Tail(cs), d)

\* cs['Duration (hours)'].sum() and cs['Log Count'].sum()
SumDuration(cs) == SumSeq([i \in 1..Len(cs) |-> cs[i].Duration])
SumLogCount(cs) == SumSeq([i \in 1..Len(cs) |-> cs[i].LogCount])

\* chunks_df.groupby('Developer')['Duration (hours)'].sum()
dev_hours(cs) ==
    [d \in Developers(cs) |-> SumDuration(ChunksOf(cs, d))]

\* Variant: the strict comparison, dev_hours > args.min_hours.
MeetsMinimum_Strict(hours, minimum) == hours > minimum

\* dev_hours >= args.min_hours
\* The comparison turned round: dev_hours <= args.min_hours.
MeetsMinimum_Reversed(hours, minimum) == hours <= minimum

MeetsMinimum(hours, minimum) == hours >= minimum

\* dev_hours[dev_hours >= args.min_hours].index
valid_developers(cs, minimum) ==
    {d \in Developers(cs) : MeetsMinimum(dev_hours(cs)[d], minimum)}

RECURSIVE IsIn(_, _)
\* chunks_df[chunks_df['Developer'].isin(valid)]
\* The selection followed by a dropna(), which drops each developer's last
\* chunk (its 'Gap to Next' is None).
IsIn_DropNa(cs, valid) ==
    SelectSeq(cs, LAMBDA c : c.Developer \in valid /\ c.GapToNext # None)

IsIn(cs, valid) ==
    IF cs = <<>> THEN <<>>
    ELSE IF Head(cs).Developer \in valid THEN <<Head(cs)>> \o IsIn(Tail(cs), valid)
         ELSE IsIn(Tail(cs), valid)

\* The rows of generate_summary before the sort: one per developer, in key
\* order, rounded to 2 decimals.
SummaryRow(cs, d) ==
    [Developer |-> d,
     Hours |-> Round2(SumDuration(ChunksOf(cs, d))),
     LogCount |-> SumLogCount(ChunksOf(cs, d)),
     ChunkCount |-> Len(ChunksOf(cs, d))]

SummaryRows(cs) ==
    LET keys == GroupKeys([i \in 1..Len(cs) |-> [User |-> cs[i].Developer]])
    IN [i \in 1..Len(keys) |-> SummaryRow(cs, keys[i])]

\* sort_values('Duration (hours)', ascending=False)
IsDescending(rows) ==
    \A i \in 1..(Len(rows) - 1) : rows[i].Hours >= rows[i + 1].Hours

\* What generate_summary may return: the sort is quicksort again, so rows
\* with equal hours come out in any order.
generate_summary(cs) == {o \in Orderings(SummaryRows(cs)) : IsDescending(o)}

\* ------------------------------------------------------------- pivots

\* chunks['Start'].dt.date, as a day number
DateOf(c) == c.Start \div SecondsPerDay

\* chunks['Start'].dt.strftime('%Y-W%U'): the week of the year with Sunday
\* as its first day; the days before the first Sunday (2024-01-07) are week 0
WeekOf(c) == (DateOf(c) + 1) \div DaysPerWeek

\* chunks['Start'].dt.to_period('W').dt.start_time: the Monday of the
\* Monday-to-Sunday week, as a day number
WeekStartOf(c) == DaysPerWeek * (DateOf(c) \div DaysPerWeek)

\* The grouping key of a chunk: 'Date', or ('Week', 'Week_Start').
KeyOf(by, c) == IF by = "Date" THEN DateOf(c) ELSE <<WeekOf(c), WeekStartOf(c)>>

RECURSIVE ChunksIn(_, _, _, _)
\* the chunks of one (key, developer) group
ChunksIn(cs, by, key, d) ==
    IF cs = <<>> THEN <<>>
    ELSE IF KeyOf(by, Head(cs)) = key /\ Head(cs).Developer = d
         THEN <<Head(cs)>> \o ChunksIn(Tail(cs), by, key, d)
         ELSE ChunksIn(Tail(cs), by, key, d)

\* groupby([key, 'Developer']).agg({'Duration (hours)': 'sum'}): one row per
\* (key, developer) present; `rounded` when .round(2) follows.
GroupBy(cs, by, rounded) ==
    {[Key |-> g[1], Developer |-> g[2],
      Hours |-> IF rounded THEN Round2(SumDuration(ChunksIn(cs, by, g[1], g[2])))
                ELSE SumDuration(ChunksIn(cs, by, g[1], g[2]))] :
        g \in {<<KeyOf(by, cs[i]), cs[i].Developer>> : i \in 1..Len(cs)}}

RECURSIVE SumHours(_)
\* the sum of the hours of a set of grouped rows
SumHours(rows) ==
    IF rows = {} THEN 0
    ELSE LET r == CHOOSE x \in rows : TRUE
         IN r.Hours + SumHours(rows \ {r})

\* The index label of a grouped row: the key itself, or, for
\* index='Week_Start', the Week_Start part of a (Week, Week_Start) key.
IndexOf(index, key) == IF index = "Week_Start" THEN key[2] ELSE key

\* pivot_table(index=..., columns='Developer', values='Duration (hours)',
\*             aggfunc='sum', fill_value=0).round(2)
PivotTable(rows, index) ==
    LET labels == {IndexOf(index, r.Key) : r \in rows}
        columns == {r.Developer : r \in rows}
    IN [index |-> labels,
        columns |-> columns,
        cell |-> [k \in labels \X columns |->
                    Round2(SumHours({r \in rows :
                                        /\ IndexOf(index, r.Key) = k[1]
                                        /\ r.Developer = k[2]}))]]

RECURSIVE SumCells(_, _)
\* the sum of the cells of a pivot at a set of (label, developer) places
SumCells(cell, places) ==
    IF places = {} THEN 0
    ELSE LET k == CHOOSE x \in places : TRUE
         IN cell[k] + SumCells(cell, places \ {k})

\* pivot_table['TOTAL'] = pivot_table.sum(axis=1).round(2), then
\* pivot_table.loc['TOTAL'] = pivot_table.sum(axis=0).round(2), which also
\* sums the new TOTAL column.
WithTotals(p) ==
    LET total_col == [k \in p.index |->
                        Round2(SumCells(p.cell, {k} \X p.columns))]
    IN [index |-> p.index,
        columns |-> p.columns,
        cell |-> p.cell,
        total_col |-> total_col,
        total_row |-> [d \in p.columns |->
                        Round2(SumCells(p.cell, p.index \X {d}))],
        grand |-> Round2(SumCells(total_col, p.index))]

\* export_excel / create_excel_download: the grouped rows are rounded, then
\* pivoted and rounded, then totalled and rounded.
ExcelPivotByDay(cs) == WithTotals(PivotTable(GroupBy(cs, "Date", TRUE), "Date"))
ExcelPivotByWeek(cs) ==
    WithTotals(PivotTable(GroupBy(cs, "Week", TRUE), "Week_Start"))

\* The Streamlit page: the grouped rows are pivoted, then rounded; the week
\* pivot is indexed by (Week, Week_Start).
StreamlitPivotByDay(cs) == PivotTable(GroupBy(cs, "Date", FALSE), "Date")
StreamlitPivotByWeek(cs) ==
    PivotTable(GroupBy(cs, "Week", FALSE), "Week, Week_Start")

NoPivot == [index |-> {}, columns |-> {}, cell |-> <<>>]

\* ------------------------------------------------------- steps of main()

\* chunks_df['Developer'] or groupby('Developer') on the column-less frame
\* that pd.DataFrame([]) is: no valid row, so no chunk, so KeyError.
RaiseKeyError ==
    /\ pc = "segmented"
    /\ chunks_df = <<>>
    /\ pc' = "KeyError"
    /\ UNCHANGED <<df, df_columns, inactivity_minutes, min_hours, segVars, outVars>>

\* "Apply minimum hours filter if set": the filtered frame and the number
\* of developers filtered out (none when the filter is not set).
FilterByMinHours(cs, minimum) ==
    IF minimum > 0
    THEN LET kept == IsIn(cs, valid_developers(cs, minimum))
         IN [chunks_df |-> kept,
             filtered_count |-> Cardinality(Developers(cs))
                                - Cardinality(Developers(kept))]
    ELSE [chunks_df |-> cs, filtered_count |-> 0]

MinHoursFilter ==
    /\ pc = "segmented"
    /\ chunks_df # <<>>
    /\ chunks_df' = FilterByMinHours(chunks_df, min_hours).chunks_df
    /\ filtered_count' = FilterByMinHours(chunks_df, min_hours).filtered_count
    /\ pc' = "filtered"
    /\ UNCHANGED <<df, df_columns, inactivity_minutes, min_hours, segVars,
                   summary, pivot_table, pivot_table_week,
                   st_pivot_table, st_pivot_table_week>>

\* summary = generate_summary(chunks_df)
GenerateSummary ==
    /\ pc = "filtered"
    /\ summary' \in generate_summary(chunks_df)
    /\ pc' = "summarised"
    /\ UNCHANGED <<df, df_columns, inactivity_minutes, min_hours, segVars,
                   chunks_df, filtered_count, pivot_table, pivot_table_week,
                   st_pivot_table, st_pivot_table_week>>

\* The page's "Work Hours by Day" and "Work Hours by Week" tables.
StreamlitPivots ==
    /\ pc = "summarised"
    /\ st_pivot_table' = StreamlitPivotByDay(chunks_df)
    /\ st_pivot_table_week' = StreamlitPivotByWeek(chunks_df)
    /\ pc' = "displayed"
    /\ UNCHANGED <<df, df_columns, inactivity_minutes, min_hours, segVars,
                   chunks_df, filtered_count, summary, pivot_table,
                   pivot_table_week>>

\* export_excel (command line) or create_excel_download (page).
ExportExcel ==
    /\ pc \in {"summarised", "displayed"}
    /\ pivot_table' = ExcelPivotByDay(chunks_df)
    /\ pivot_table_week' = ExcelPivotByWeek(chunks_df)
    /\ pc' = "done"
    /\ UNCHANGED <<df, df_columns, inactivity_minutes, min_hours, segVars,
                   chunks_df, filtered_count, summary, st_pivot_table,
                   st_pivot_table_week>>

\* ------------------------------------------------------ specifications

\* A log table: rows in file order, each with its index label.
Table(cells) ==
    [i \in 1..Len(cells) |->
        [idx |-> i, User |-> cells[i][1], DateTimeUTC |-> cells[i][2]]]

SeqsUpTo(S, n) == UNION {[1..k -> S] : k \in 0..n}

\* The columns of a table as load_logs returns it.
LoadedColumns == {"Date/Time (UTC)", "User", "_source_file"}

InitRest ==
    /\ pc = "start"
    /\ df_columns = LoadedColumns
    /\ sorted_df = <<>>
    /\ groups = <<>>
    /\ user = ""
    /\ user_logs = <<>>
    /\ row = 1
    /\ chunk_start = None
    /\ chunk_end = None
    /\ chunk_logs_count = 0
    /\ chunks = <<>>
    /\ chunks_df = <<>>
    /\ filtered_count = 0
    /\ summary = <<>>
    /\ pivot_table = NoPivot
    /\ pivot_table_week = NoPivot
    /\ st_pivot_table = NoPivot
    /\ st_pivot_table_week = NoPivot

\* Any table of up to MaxEvents rows, in any order, invalid users included;
\* --min-hours is left at its default.
Init ==
    /\ df \in {Table(cells) : cells \in SeqsUpTo(Users \X Times, MaxEvents)}
    /\ inactivity_minutes \in InactivityChoices
    /\ min_hours = DefaultMinHours
    /\ InitRest

\* Tables of up to MaxReportEvents distinct rows of valid users, spread over
\* days and weeks, in one file order each, under any --inactivity and
\* --min-hours the command line accepts.
ReportCells == {u \in Users : ValidUser(u)} \X ReportTimes

InitReport ==
    /\ \E S \in SUBSET ReportCells :
          /\ Cardinality(S) <= MaxReportEvents
          /\ df = Table(CHOOSE cells \in [1..Cardinality(S) -> S] :
                          /\ \A x \in S : \E i \in 1..Cardinality(S) : cells[i] = x
                          /\ \A i \in 1..(Cardinality(S) - 1) :
                                \/ UserRank(cells[i][1]) < UserRank(cells[i + 1][1])
                                \/ /\ cells[i][1] = cells[i + 1][1]
                                   /\ to_datetime(cells[i][2])
                                        < to_datetime(cells[i + 1][2]))
    /\ inactivity_minutes \in AnyInactivityChoices
    /\ min_hours \in AnyMinHoursChoices
    /\ InitRest

Next ==
    \/ ConvertFilterSort
    \/ NextUser
    \/ ScanRow
    \/ SaveLastChunk
    \/ ReturnChunks
    \/ RaiseKeyError
    \/ MinHoursFilter
    \/ GenerateSummary
    \/ StreamlitPivots
    \/ ExportExcel

\* process_work_chunks alone, up to its return.
NextSegment ==
    \/ ConvertFilterSort
    \/ NextUser
    \/ ScanRow
    \/ SaveLastChunk
    \/ ReturnChunks

Spec == Init /\ [][Next]_vars
SpecReport == InitReport /\ [][Next]_vars
SpecSegment == Init /\ [][NextSegment]_vars

\* ------------------------------------------------------------ claims

\* process_work_chunks has returned.
Returned == pc \notin {"start", "group", "scan"}

\* A ScanRow step on a row that is not the first of its group.
LaterRowStep == pc = "scan" /\ row' = row + 1 /\ chunk_start # None

\* C1: for two consecutive rows of a user's sorted group, a gap equal to the
\* inactivity threshold extends the open chunk (end := t, count += 1, nothing
\* appended); a chunk is appended by a row only when the gap is strictly
\* greater than the threshold.
C1_EqualGapExtends ==
    [][LaterRowStep =>
        LET t == user_logs[row].DateTime
            gap == t - Val(chunk_end)
        IN /\ gap = inactivity_threshold(inactivity_minutes) =>
                /\ chunk_end' = Some(t)
                /\ chunk_start' = chunk_start
                /\ chunk_logs_count' = chunk_logs_count + 1
                /\ chunks' = chunks
           /\ chunks' # chunks => gap > inactivity_threshold(inactivity_minutes)
      ]_vars

\* A row at exactly the threshold from the previous one has just been
\* absorbed into the open chunk.
C1_Witness ==
    /\ pc = "scan"
    /\ row >= 3
    /\ user_logs[row - 1].DateTime - user_logs[row - 2].DateTime
         = inactivity_threshold(inactivity_minutes)
    /\ chunk_end = Some(user_logs[row - 1].DateTime)
    /\ chunk_logs_count >= 2

\* C2: per owner, in emitted order, every chunk but the last has a gap to
\* next that is the distance from its end to the next chunk's start and is
\* strictly greater than the threshold; the last, and only it, has None.
C2_GapToNext ==
    Returned =>
        \A u \in Users :
            LET cs == ChunksOf(chunks, u)
            IN \A i \in 1..Len(cs) :
                  IF i = Len(cs) THEN cs[i].GapToNext = None
                  ELSE /\ cs[i].GapToNext # None
                       /\ Val(cs[i].GapToNext) = cs[i + 1].Start - cs[i].End
                       /\ Val(cs[i].GapToNext)
                            > inactivity_threshold(inactivity_minutes)

\* An owner came out with two chunks or more.
C2_Witness ==
    /\ Returned
    /\ \E u \in Users : Len(ChunksOf(chunks, u)) >= 2

\* C3: every chunk in the list, and the open chunk at every step of the scan,
\* has start <= end and a count >= 1, and a chunk's duration is end - start.
C3_ChunkWellFormed ==
    /\ \A i \in 1..Len(chunks) :
          /\ chunks[i].Start <= chunks[i].End
          /\ chunks[i].LogCount >= 1
          /\ chunks[i].Duration = chunks[i].End - chunks[i].Start
          /\ chunks[i].Duration >= 0
    /\ chunk_start # None =>
          /\ Val(chunk_start) <= Val(chunk_end)
          /\ chunk_logs_count >= 1

\* Rows given latest first came out as one chunk of positive duration.
C3_Witness ==
    /\ Returned
    /\ \E i \in 1..Len(chunks) : chunks[i].Duration > 0 /\ chunks[i].LogCount >= 2
    /\ \E i, j \in 1..Len(df) :
          /\ i < j
          /\ df[i].User = df[j].User
          /\ to_datetime(df[i].DateTimeUTC) > to_datetime(df[j].DateTimeUTC)

ChunkSet(cs) == {cs[i] : i \in 1..Len(cs)}

\* C4: the chunks do not depend on the order of the rows: every reordering of
\* the table, and every order the sort leaves equal keys in, gives the same
\* set of chunks.
C4_OrderIndependent ==
    pc = "segmented" =>
        \A o \in Orderings(df) :
            ChunkSet(process_work_chunks(o, inactivity_minutes)) = ChunkSet(chunks)

\* A table with two rows of equal owner and timestamp and a later row that
\* is earlier in time was segmented.
C4_Witness ==
    /\ pc = "segmented"
    /\ chunks # <<>>
    /\ \E i, j, k \in 1..Len(df) :
          /\ i < j /\ j < k
          /\ df[i].User \notin {NaN, ""}
          /\ df[i].User = df[j].User /\ df[j].User = df[k].User
          /\ df[i].DateTimeUTC = df[j].DateTimeUTC
          /\ to_datetime(df[k].DateTimeUTC) < to_datetime(df[j].DateTimeUTC)

\* the number of rows of the table whose User is u
RowsOf(u) == Cardinality({i \in 1..Len(df) : df[i].User = u})

\* u names an owner: it is neither missing nor empty
IsOwner(u) == u \notin {NaN, ""}

\* C5: no chunk has an empty or missing owner, and per owner the log counts
\* of its chunks add up to the number of its rows in the table (so an owner
\* without valid rows has no chunk).
C5_ValidOwnersOnly ==
    Returned =>
        /\ \A i \in 1..Len(chunks) : IsOwner(chunks[i].Developer)
        /\ \A u \in Users :
              IF IsOwner(u)
              THEN /\ SumLogCount(ChunksOf(chunks, u)) = RowsOf(u)
                   /\ RowsOf(u) = 0 => ChunksOf(chunks, u) = <<>>
              ELSE ChunksOf(chunks, u) = <<>>

\* A table with an empty owner, a missing owner and a valid owner was
\* segmented.
C5_Witness ==
    /\ Returned
    /\ chunks # <<>>
    /\ RowsOf("") > 0
    /\ RowsOf(NaN) > 0

\* generate_summary has returned to main().
Summarised == pc \in {"summarised", "displayed", "done"}

Abs(x) == IF x < 0 THEN -x ELSE x

\* the hours of the rows of a summary
SummaryHours(rows) == SumSeq([i \in 1..Len(rows) |-> rows[i].Hours])

\* one row per distinct owner of the chunk set, with its counts right
OneRowPerOwner ==
    /\ Len(summary) = Cardinality(Developers(chunks_df))
    /\ {summary[i].Developer : i \in 1..Len(summary)} = Developers(chunks_df)
    /\ \A i \in 1..Len(summary) :
          LET own == ChunksOf(chunks_df, summary[i].Developer)
          IN /\ summary[i].LogCount = SumLogCount(own)
             /\ summary[i].ChunkCount = Len(own)

\* C6, as stated: one row per distinct owner, whose total_hours is the sum of
\* the owner's durations, so that the totals add up to the sum of all
\* durations.
C6_SummaryExact ==
    Summarised =>
        /\ OneRowPerOwner
        /\ \A i \in 1..Len(summary) :
              summary[i].Hours
                = SumDuration(ChunksOf(chunks_df, summary[i].Developer))
        /\ SummaryHours(summary) = SumDuration(chunks_df)

\* C6, amended: one row per distinct owner, whose total_hours is the sum of
\* the owner's durations rounded to 2 decimals (a whole number of hundredths,
\* within 0.005 h of the sum); the totals add up to the sum of all durations
\* within 0.005 h per row.
C6_SummaryRounded ==
    Summarised =>
        /\ OneRowPerOwner
        /\ \A i \in 1..Len(summary) :
              LET total == SumDuration(ChunksOf(chunks_df, summary[i].Developer))
              IN /\ summary[i].Hours % HundredthHour = 0
                 /\ 2 * Abs(summary[i].Hours - total) <= HundredthHour
        /\ 2 * Abs(SummaryHours(summary) - SumDuration(chunks_df))
             <= HundredthHour * Len(summary)

\* A summary of two owners, one of whose totals was changed by the rounding.
C6_Witness ==
    /\ Summarised
    /\ Len(summary) = 2
    /\ \E i \in 1..Len(summary) :
          summary[i].Hours # SumDuration(ChunksOf(chunks_df, summary[i].Developer))

\* C7: the summary rows are in descending total_hours, and of two owners
\* with equal total_hours the one with the smaller identifier comes first.
C7_SummaryOrder ==
    Summarised =>
        \A i, j \in 1..Len(summary) :
            i < j =>
                \/ summary[i].Hours > summary[j].Hours
                \/ /\ summary[i].Hours = summary[j].Hours
                   /\ UserRank(summary[i].Developer) < UserRank(summary[j].Developer)

\* the chunks of cs that start on day k, and those that start in the
\* Monday-to-Sunday week whose Monday is day k
StartingOnDay(cs, k) == SelectSeq(cs, LAMBDA c : DateOf(c) = k)
StartingInWeek(cs, k) == SelectSeq(cs, LAMBDA c : WeekStartOf(c) = k)

\* the chunks of cs that start in period k of a day or week pivot
InPeriod(cs, by, k) ==
    IF by = "Date" THEN StartingOnDay(cs, k) ELSE StartingInWeek(cs, k)

\* the totals of pivot p are the sums of the unrounded durations, rounded once
TotalsRoundedOnce(p, by) ==
    /\ \A k \in p.index :
          p.total_col[k] = Round2(SumDuration(InPeriod(chunks_df, by, k)))
    /\ \A d \in p.columns :
          p.total_row[d] = Round2(SumDuration(ChunksOf(chunks_df, d)))
    /\ p.grand = Round2(SumDuration(chunks_df))

\* C8: in the day and week pivots every entry of the total row, of the total
\* column, and the grand total is the sum of the underlying unrounded chunk
\* durations, rounded to 2 decimals once.
C8_TotalsRoundedOnce ==
    pc = "done" =>
        /\ TotalsRoundedOnce(pivot_table, "Date")
        /\ TotalsRoundedOnce(pivot_table_week, "Week_Start")

\* the 2-decimal sum of the durations of owner d's chunks starting in period k
PeriodSum(by, k, d) ==
    Round2(SumDuration(ChunksOf(InPeriod(chunks_df, by, k), d)))

\* C9, read at the 2 decimals the pivots are shown with: every (period,
\* owner) cell of the day pivots and of the week pivots is the sum of the
\* durations of the owner's chunks that start in the period (0 when there
\* is none), so that each chunk is counted in exactly one cell: a period has
\* one row.
C9_PivotCells ==
    /\ pc \in {"displayed", "done"} =>
          /\ \A k \in st_pivot_table.index : \A d \in st_pivot_table.columns :
                st_pivot_table.cell[<<k, d>>] = PeriodSum("Date", k, d)
          /\ \A k \in st_pivot_table_week.index :
                \A d \in st_pivot_table_week.columns :
                    st_pivot_table_week.cell[<<k, d>>]
                      = PeriodSum("Week_Start", k[2], d)
          /\ \A k1, k2 \in st_pivot_table_week.index : k1[2] = k2[2] => k1 = k2
    /\ pc = "done" =>
          /\ \A k \in pivot_table.index : \A d \in pivot_table.columns :
                pivot_table.cell[<<k, d>>] = PeriodSum("Date", k, d)
          /\ \A k \in pivot_table_week.index : \A d \in pivot_table_week.columns :
                pivot_table_week.cell[<<k, d>>] = PeriodSum("Week_Start", k, d)

\* the minimum-hours filter has run
Filtered == pc \in {"filtered", "summarised", "displayed", "done"}

\* C10: with min_hours > 0 the filter keeps exactly the chunks of the owners
\* whose total hours over all their chunks is >= min_hours, in order, all of
\* an owner's chunks or none, and the removed count is the number of owners
\* present before and absent after.
C10_MinHoursFilter ==
    (Filtered /\ min_hours > 0) =>
        /\ chunks_df = SelectSeq(chunks,
              LAMBDA c : SumDuration(ChunksOf(chunks, c.Developer)) >= min_hours)
        /\ \A d \in Developers(chunks) :
              \/ ChunksOf(chunks_df, d) = ChunksOf(chunks, d)
              \/ ChunksOf(chunks_df, d) = <<>>
        /\ filtered_count
             = Cardinality(Developers(chunks) \ Developers(chunks_df))

\* The filter dropped one owner and kept another whose total is exactly
\* min_hours.
C10_Witness ==
    /\ Filtered
    /\ min_hours > 0
    /\ filtered_count = 1
    /\ \E d \in Developers(chunks_df) :
          SumDuration(ChunksOf(chunks, d)) = min_hours

\* thresholds at which the filter is compared with itself
ProbeMinHours == AnyMinHoursChoices \cup {12, 48}

\* the owners the filter retains from cs at threshold m
Retained(cs, m) == Developers(FilterByMinHours(cs, m).chunks_df)

\* C11: the owners retained by the filter shrink as min_hours grows (what is
\* retained at a higher threshold is retained at every lower one), and with
\* min_hours <= 0 every chunk is retained and no owner is removed.
C11_FilterMonotone ==
    Filtered =>
        /\ \A m \in ProbeMinHours :
              /\ m <= min_hours => Developers(chunks_df) \subseteq Retained(chunks, m)
              /\ m >= min_hours => Retained(chunks, m) \subseteq Developers(chunks_df)
        /\ \A m1, m2 \in ProbeMinHours :
              m1 <= m2 => Retained(chunks, m2) \subseteq Retained(chunks, m1)
        /\ min_hours <= 0 => chunks_df = chunks /\ filtered_count = 0

\* A negative min_hours kept every chunk of a table from which two higher
\* thresholds retain fewer and fewer owners.
C11_Witness ==
    /\ Filtered
    /\ min_hours < 0
    /\ chunks_df = chunks
    /\ Retained(chunks, 48) # Retained(chunks, 24)
    /\ Retained(chunks, 24) # Developers(chunks)

\* C12: filtering the filter's own output with the same min_hours returns
\* the same chunks and removes no further owner.
C12_FilterIdempotent ==
    Filtered =>
        FilterByMinHours(chunks_df, min_hours)
            = [chunks_df |-> chunks_df, filtered_count |-> 0]

\* The filter removed an owner and kept one who has several chunks.
C12_Witness ==
    /\ Filtered
    /\ min_hours > 0
    /\ filtered_count > 0
    /\ \E d \in Developers(chunks_df) : Len(ChunksOf(chunks_df, d)) > 1

\* C13: with a non-positive inactivity threshold or a negative min_hours the
\* run is rejected before any processing: no event is segmented, no chunk is
\* produced, nothing is filtered or aggregated.
C13_ConfigRejected ==
    (inactivity_minutes <= 0 \/ min_hours < 0) =>
        /\ pc \in {"start", "ConfigError"}
        /\ sorted_df = <<>>
        /\ chunks = <<>>
        /\ chunks_df = <<>>
        /\ summary = <<>>

\* the timestamps of u's rows in the table
TimesOf(u) ==
    {to_datetime(df[i].DateTimeUTC) : i \in {j \in 1..Len(df) : df[j].User = u}}

\* the latest timestamp of T before t
Previous(T, t) == CHOOSE x \in T : x < t /\ \A y \in T : y < t => y <= x

\* the timestamps of T that follow their predecessor by more than the
\* threshold
Breaks(T) ==
    {t \in T : /\ \E x \in T : x < t
               /\ t - Previous(T, t) > inactivity_minutes * SecondsPerMinute}

\* C14: the chunks of an owner are the maximal runs of its time-sorted
\* events: inside a chunk every event follows the previous event (not the
\* chunk's start) by at most the threshold, a chunk starts at the owner's
\* first event or after a gap above the threshold, the number of chunks is
\* 1 + the number of consecutive event pairs more than the threshold apart,
\* and an owner with one event has one chunk of duration 0 and no gap.
C14_MaximalRuns ==
    pc = "segmented" =>
        \A u \in {v \in Users : IsOwner(v)} :
            LET T == TimesOf(u)
                cs == ChunksOf(chunks, u)
            IN /\ \A i \in 1..Len(cs) :
                    /\ cs[i].Start \in T /\ cs[i].End \in T
                    /\ \A t \in T :
                          (cs[i].Start < t /\ t <= cs[i].End) => t \notin Breaks(T)
                    /\ cs[i].Start \in Breaks(T)
                         \/ (\A t \in T : cs[i].Start <= t)
                    /\ i < Len(cs) => Previous(T, cs[i + 1].Start) = cs[i].End
               /\ T = {} => cs = <<>>
               /\ T # {} => Len(cs) = 1 + Cardinality(Breaks(T))
               /\ RowsOf(u) = 1 =>
                    /\ Len(cs) = 1
                    /\ cs[1].Duration = 0
                    /\ cs[1].GapToNext = None
                    /\ cs[1].LogCount = 1

\* An owner's events made one chunk that spans more than the threshold, each
\* event following the previous one within it.
C14_Witness ==
    /\ pc = "segmented"
    /\ \E i \in 1..Len(chunks) :
          /\ chunks[i].Duration > inactivity_minutes * SecondsPerMinute
          /\ Breaks(TimesOf(chunks[i].Developer)) = {}

\* the table without the rows of owners other than u
OnlyRowsOf(u) == SelectSeq(df, LAMBDA r : r.User = u)

\* C15: the chunks of an owner depend on that owner's events only: the
\* table and the table without every other owner's rows give the same
\* chunks for the owner (so any two tables with the same rows for the owner
\* do), and each owner's scan starts with an empty accumulator.
C15_OwnerIndependent ==
    /\ pc = "segmented" =>
          \A u \in Users :
              ChunksOf(chunks, u)
                  = process_work_chunks(OnlyRowsOf(u), inactivity_minutes)
    /\ (pc = "scan" /\ row = 1) =>
          /\ chunk_start = None
          /\ chunk_end = None
          /\ chunk_logs_count = 0

\* Two owners were segmented, the second within the threshold of the
\* first's last event.
C15_Witness ==
    /\ pc = "segmented"
    /\ \E i \in 1..Len(chunks) - 1 :
          /\ chunks[i].Developer # chunks[i + 1].Developer
          /\ chunks[i + 1].Start >= chunks[i].End
          /\ chunks[i + 1].Start - chunks[i].End
                <= inactivity_minutes * SecondsPerMinute

\* a timestamp written back as a 'Date/Time (UTC)' cell
Strftime(t) == Stamp(t \div SecondsPerDay, t % SecondsPerDay)

\* the chunks flattened into a table of events: each chunk gives a row at its
\* start and a row at its end, for its owner
Flatten(cs) ==
    [i \in 1..(2 * Len(cs)) |->
        LET c == cs[(i + 1) \div 2]
        IN [idx |-> i, User |-> c.Developer,
            DateTimeUTC |-> Strftime(IF i % 2 = 1 THEN c.Start ELSE c.End)]]

\* the (owner, start, end) boundaries of the chunks, in order
Boundaries(cs) ==
    [i \in 1..Len(cs) |-> <<cs[i].Developer, cs[i].Start, cs[i].End>>]

\* the boundaries with each chunk longer than the threshold replaced by one
\* chunk at its start and one at its end
RECURSIVE SplitLong(_, _)
SplitLong(cs, minutes) ==
    IF cs = <<>> THEN <<>>
    ELSE LET c == Head(cs)
         IN (IF c.Duration > minutes * SecondsPerMinute
             THEN << <<c.Developer, c.Start, c.Start>>,
                     <<c.Developer, c.End, c.End>> >>
             ELSE << <<c.Developer, c.Start, c.End>> >>)
            \o SplitLong(Tail(cs), minutes)

\* the chunks of the flattened chunks, under the same threshold
Resegmented == process_work_chunks(Flatten(chunks), inactivity_minutes)

\* C16 as stated: segmenting the flattened chunks with the same threshold
\* gives the same (owner, start, end) boundaries.
C16_ResegmentIdempotent ==
    pc = "segmented" => Boundaries(Resegmented) = Boundaries(chunks)

\* C16: segmenting the flattened chunks with the same threshold gives each
\* chunk that is no longer than the threshold back with the same (owner,
\* start, end), and gives for each chunk longer than the threshold two
\* chunks, (owner, start, start) and (owner, end, end); the boundaries are
\* the same exactly when no chunk is longer than the threshold.
C16_ResegmentSplitsLong ==
    pc = "segmented" =>
        LET again == Boundaries(Resegmented)
        IN /\ again = SplitLong(chunks, inactivity_minutes)
           /\ again = Boundaries(chunks)
                <=> \A i \in 1..Len(chunks) :
                       chunks[i].Duration <= inactivity_minutes * SecondsPerMinute

\* A chunk longer than the threshold came back as two chunks.
C16_Witness ==
    /\ pc = "segmented"
    /\ \E i \in 1..Len(chunks) :
          chunks[i].Duration > inactivity_minutes * SecondsPerMinute
    /\ Len(Resegmented) = Len(chunks) + 1

\* C17: process_work_chunks leaves the caller's table as it was (the same
\* rows, the same columns, nothing added), and once the chunks are returned
\* no later step (filter, summary, pivots, export) alters them.
C17_InputsUntouched ==
    [][/\ df' = df
       /\ df_columns' = df_columns
       /\ Returned => chunks' = chunks]_vars

====
